---- MODULE Spec2Model ----
(***************************************************************************)
(* Maze generation (iterative and recursive randomized backtracking) and   *)
(* pathfinding (BFS, A*, Dijkstra, dead-end filler) of RB-BFS-MazeEngine,  *)
(* with the Maze orchestrator that wires them together.                    *)
(*                                                                         *)
(* A position is a pair <<x, y>>.  A grid is a function from row index y   *)
(* (0-based) to a function from column index x (0-based) to a cell type,   *)
(* so that grid[y][x] reads as in the source.                              *)
(***************************************************************************)
EXTENDS Integers, Sequences, FiniteSets, TLC

(***************************************************************************)
(* Bounds of the model.                                                    *)
(***************************************************************************)
\* Largest requested width and height handed to Maze(...).
MaxReqW == 6
MaxReqH == 4
\* Largest requested width and height handed to Maze(...) with the recursive
\* generator, whose frames keep the shuffled directions of every open call.
RecMaxReq == 4
\* Largest requested width and height of the long mazes handed to Maze(...)
\* with the recursive generator and BFS: one corridor, three calls deep.
RecLongReqW == 8
RecLongReqH == 2
\* Most frames open in the host when Maze(...) is called: none at the top
\* level of a script, one in test_all_pathfinders, three in the worker thread
\* of gui.py, four in generate_maze_menu of main.py, and so on up to the
\* deepest host in which a generate call that nests nothing still returns.
MaxHostFrames == 989
\* Largest requested width and height where one generator serves several
\* Mazes, and the number of those Mazes.
AgainMaxReq == 4
AgainMazes == 2
\* The arbitrary grids handed directly to find_path: at most PathW wide, at
\* most PathH high, of at most MaxCells cells.
PathW == 3
PathH == 3
MaxCells == 9
\* The longer grids handed to find_path with start and end in open cells or
\* outside: at most WideW wide, at most WideH high, of at most WideCells cells.
WideW == 5
WideH == 2
WideCells == 10
\* The grids on which the dead-end filler is followed scan by scan: at most
\* FillW wide, at most FillH high, of at most FillCells cells.
FillW == 3
FillH == 3
FillCells == 9
\* The grids on which A* is followed step by step, from a cell of the first
\* column to a cell of the last: at most AcrossW wide, at most AcrossH high,
\* of at most AcrossCells cells, at most AcrossWalls of them Wall.
AcrossW == 5
AcrossH == 3
AcrossCells == 15
AcrossWalls == 2

\* SpecGui: the worker threads started by the clicks on Generate and Solve.
MaxGenerateThreads == 2
MaxSolveThreads == 2

(***************************************************************************)
(* maze_core.py: CellType, Cell, Position                                  *)
(***************************************************************************)
WALL == "#"
EMPTY == " "
START == "S"
END == "E"
PATH == "."

CellType == {WALL, EMPTY, START, END, PATH}

\* Optional[List[Position]]: the absent value, and a returned path.
None == [found |-> FALSE, path |-> <<>>]

Found(path) == [found |-> TRUE, path |-> path]

Position(x, y) == <<x, y>>

is_passable_mut_all(cell_type) == cell_type \in CellType

is_passable(cell_type) == cell_type \in {EMPTY, START, END, PATH}

\* len(grid) and len(grid[0]), as the pathfinders read them.
GridHeight(g) == Cardinality(DOMAIN g)

GridWidth(g) == IF GridHeight(g) = 0 THEN 0 ELSE Cardinality(DOMAIN g[0])

InBounds(x, y, w, h) == 0 <= x /\ x < w /\ 0 <= y /\ y < h

SetCell(g, p, k) == [g EXCEPT ![p[2]][p[1]] = k]

(***************************************************************************)
(* maze_core.py: Maze._ensure_odd                                          *)
(***************************************************************************)
ensure_odd_mut_even(value) == IF value % 2 = 0 THEN value ELSE value + 1

ensure_odd(value) == IF value % 2 = 1 THEN value ELSE value + 1

(***************************************************************************)
(* generators.py: shared pieces of the two generators                      *)
(***************************************************************************)
\* directions = [(2, 0), (0, 2), (-2, 0), (0, -2)]
GenDirections == << <<2, 0>>, <<0, 2>>, <<-2, 0>>, <<0, -2>> >>

\* grid of walls, then the start cell, then the end cell (the later write wins).
NewGrid(w, h, s, e) ==
  [y \in 0..(h - 1) |->
     [x \in 0..(w - 1) |->
        IF <<x, y>> = e THEN END ELSE IF <<x, y>> = s THEN START ELSE WALL]]

\* grid[start_pos.y][start_pos.x] = ... raises IndexError outside the grid.
Indexable(p, w, h) == InBounds(p[1], p[2], w, h)

MarkEmpty_mut_overwrite(g, p) == SetCell(g, p, EMPTY)

\* "Mark cells as empty (unless they are start/end)"
MarkEmpty(g, p) ==
  IF g[p[2]][p[1]] \notin {START, END} THEN SetCell(g, p, EMPTY) ELSE g

ensure_exit_path_mut_none(g, e, c) == g

ensure_exit_path_mut_both(g, e, c) ==
  SetCell(SetCell(g, Position(e[1] - 1, e[2]), EMPTY),
          Position(e[1], e[2] - 1), EMPTY)

\* _ensure_exit_path, c is the value of random.choice([True, False]).
ensure_exit_path(g, e, c) ==
  IF c /\ e[1] > 0
  THEN LET left_pos == Position(e[1] - 1, e[2])
       IN IF g[left_pos[2]][left_pos[1]] = WALL
          THEN SetCell(g, left_pos, EMPTY) ELSE g
  ELSE IF e[2] > 0
       THEN LET top_pos == Position(e[1], e[2] - 1)
            IN IF g[top_pos[2]][top_pos[1]] = WALL
               THEN SetCell(g, top_pos, EMPTY) ELSE g
       ELSE g

(***************************************************************************)
(* generators.py: IterativeRecursiveBacktrackGenerator                     *)
(***************************************************************************)
get_unvisited_neighbors_mut_no_right(pos, w, h, vis) ==
  LET cand == [i \in 1..3 |-> Position(pos[1] + GenDirections[i + 1][1],
                                       pos[2] + GenDirections[i + 1][2])]
  IN SelectSeq(cand, LAMBDA n: InBounds(n[1], n[2], w, h) /\ n \notin vis)

get_unvisited_neighbors_mut_visited_too(pos, w, h, vis) ==
  LET cand == [i \in 1..4 |-> Position(pos[1] + GenDirections[i][1],
                                       pos[2] + GenDirections[i][2])]
  IN SelectSeq(cand, LAMBDA n: InBounds(n[1], n[2], w, h))

\* _get_unvisited_neighbors (lines 79-94), in the order of directions.
get_unvisited_neighbors(pos, w, h, vis) ==
  LET cand == [i \in 1..4 |-> Position(pos[1] + GenDirections[i][1],
                                       pos[2] + GenDirections[i][2])]
  IN SelectSeq(cand, LAMBDA n: InBounds(n[1], n[2], w, h) /\ n \notin vis)

\* wall_pos = Position((current.x + next.x) // 2, (current.y + next.y) // 2)
WallBetween(cur, nxt) ==
  Position((cur[1] + nxt[1]) \div 2, (cur[2] + nxt[2]) \div 2)

(***************************************************************************)
(* pathfinders.py: BFSPathfinder                                           *)
(***************************************************************************)
\* directions = [(1, 0), (0, 1), (-1, 0), (0, -1)]
Directions_mut_diag == << <<1, 1>>, <<0, 1>>, <<-1, 0>>, <<0, -1>> >>

Directions == << <<1, 0>>, <<0, 1>>, <<-1, 0>>, <<0, -1>> >>

EmptyGrid_mut_never(g) == FALSE

\* "if not grid or not grid[0]: return None"
EmptyGrid(g) == GridHeight(g) = 0 \/ GridWidth(g) = 0

\* The for loop over directions (lines 37-48), from direction i on: each
\* in-bounds, unvisited, passable neighbour is appended with its path.
RECURSIVE BFSExpand(_, _, _, _, _, _)
BFSExpand(g, cur, path, queue, vis, i) ==
  IF i > 4 THEN [queue |-> queue, visited |-> vis]
  ELSE LET next_x == cur[1] + Directions[i][1]
           next_y == cur[2] + Directions[i][2]
           next_pos == Position(next_x, next_y)
       IN IF /\ InBounds(next_x, next_y, GridWidth(g), GridHeight(g))
             /\ next_pos \notin vis
             /\ is_passable(g[next_y][next_x])
          THEN BFSExpand(g, cur, path,
                         Append(queue, <<next_pos, Append(path, next_pos)>>),
                         vis \cup {next_pos}, i + 1)
          ELSE BFSExpand(g, cur, path, queue, vis, i + 1)

BFSInit(s) ==
  [queue |-> << <<s, <<s>>>> >>, visited |-> {s}, done |-> FALSE, result |-> None]

BFSStep_mut_late_check(g, e, st) ==
  IF st.queue = <<>> THEN [st EXCEPT !.done = TRUE, !.result = None]
  ELSE LET current_pos == Head(st.queue)[1]
           path == Head(st.queue)[2]
           r == BFSExpand(g, current_pos, path, Tail(st.queue), st.visited, 1)
       IN IF current_pos = e /\ Len(path) > 1
          THEN [st EXCEPT !.queue = Tail(@), !.done = TRUE, !.result = Found(path)]
          ELSE [st EXCEPT !.queue = r.queue, !.visited = r.visited]

BFSStep_mut_lifo(g, e, st) ==
  IF st.queue = <<>> THEN [st EXCEPT !.done = TRUE, !.result = None]
  ELSE LET n == Len(st.queue)
           current_pos == st.queue[n][1]
           path == st.queue[n][2]
           rest == SubSeq(st.queue, 1, n - 1)
       IN IF current_pos = e
          THEN [st EXCEPT !.queue = rest, !.done = TRUE, !.result = Found(path)]
          ELSE LET r == BFSExpand(g, current_pos, path, rest, st.visited, 1)
               IN [st EXCEPT !.queue = r.queue, !.visited = r.visited]

\* One iteration of "while queue" (lines 29-48), or the fall-through to
\* "return None" (line 50) when the queue is empty.
BFSStep(g, e, st) ==
  IF st.queue = <<>> THEN [st EXCEPT !.done = TRUE, !.result = None]
  ELSE LET current_pos == Head(st.queue)[1]
           path == Head(st.queue)[2]
       IN IF current_pos = e
          THEN [st EXCEPT !.queue = Tail(@), !.done = TRUE, !.result = Found(path)]
          ELSE LET r == BFSExpand(g, current_pos, path, Tail(st.queue),
                                  st.visited, 1)
               IN [st EXCEPT !.queue = r.queue, !.visited = r.visited]

RECURSIVE BFSRun(_, _, _)
BFSRun(g, e, st) == IF st.done THEN st ELSE BFSRun(g, e, BFSStep(g, e, st))

BFS_find_path(g, s, e) ==
  IF EmptyGrid(g) THEN None ELSE BFSRun(g, e, BFSInit(s)).result

(***************************************************************************)
(* pathfinders.py: AStarPathfinder                                         *)
(***************************************************************************)
Abs(n) == IF n < 0 THEN -n ELSE n

manhattan_distance_mut_squared(pos1, pos2) ==
  (Abs(pos1[1] - pos2[1]) + Abs(pos1[2] - pos2[2]))
    * (Abs(pos1[1] - pos2[1]) + Abs(pos1[2] - pos2[2]))

manhattan_distance(pos1, pos2) ==
  Abs(pos1[1] - pos2[1]) + Abs(pos1[2] - pos2[2])

AStarLess_mut_counter_first(a, b) ==
  \/ a.f < b.f
  \/ a.f = b.f /\ a.c < b.c

AStarLess_mut_greatest(a, b) ==
  \/ a.f > b.f
  \/ a.f = b.f /\ a.g > b.g
  \/ a.f = b.f /\ a.g = b.g /\ a.c > b.c

\* Tuple order of the heap entries (f_score, g_score, counter, ...): the
\* counter is unique, so the comparison never reaches the position.
AStarLess(a, b) ==
  \/ a.f < b.f
  \/ a.f = b.f /\ a.g < b.g
  \/ a.f = b.f /\ a.g = b.g /\ a.c < b.c

\* heapq.heappop: the least entry of the heap.
AStarPop(open) == CHOOSE a \in open : \A b \in open \ {a} : AStarLess(a, b)

\* g_scores[next_pos] = tentative_g_score
PutScore(scores, p, v) ==
  [q \in (DOMAIN scores) \cup {p} |-> IF q = p THEN v ELSE scores[q]]

\* The for loop over directions (lines 85-105), from direction i on.
RECURSIVE AStarExpand(_, _, _, _, _, _, _)
AStarExpand(g, e, cur, g_score, path, st, i) ==
  IF i > 4 THEN st
  ELSE LET next_x == cur[1] + Directions[i][1]
           next_y == cur[2] + Directions[i][2]
           next_pos == Position(next_x, next_y)
           tentative_g_score == g_score + 1
       IN IF /\ InBounds(next_x, next_y, GridWidth(g), GridHeight(g))
             /\ next_pos \notin st.visited
             /\ is_passable(g[next_y][next_x])
             /\ \/ next_pos \notin DOMAIN st.g_scores
                \/ tentative_g_score < st.g_scores[next_pos]
          THEN LET h_score == manhattan_distance(next_pos, e)
                   entry == [f |-> tentative_g_score + h_score,
                             g |-> tentative_g_score,
                             c |-> st.counter + 1,
                             pos |-> next_pos,
                             path |-> Append(path, next_pos)]
               IN AStarExpand(g, e, cur, g_score, path,
                              [st EXCEPT !.g_scores =
                                           PutScore(@, next_pos, tentative_g_score),
                                         !.counter = @ + 1,
                                         !.open = @ \cup {entry}],
                              i + 1)
          ELSE AStarExpand(g, e, cur, g_score, path, st, i + 1)

AStarInit(s) ==
  [open |-> {[f |-> 0, g |-> 0, c |-> 0, pos |-> s, path |-> <<s>>]},
   visited |-> {}, g_scores |-> [q \in {s} |-> 0], counter |-> 0,
   done |-> FALSE, result |-> None]

\* One iteration of "while open_set" (lines 72-105), or "return None".
AStarStep(g, e, st) ==
  IF st.open = {} THEN [st EXCEPT !.done = TRUE, !.result = None]
  ELSE LET top == AStarPop(st.open)
           popped == [st EXCEPT !.open = @ \ {top}]
       IN IF top.pos \in st.visited THEN popped
          ELSE LET marked == [popped EXCEPT !.visited = @ \cup {top.pos}]
               IN IF top.pos = e
                  THEN [marked EXCEPT !.done = TRUE, !.result = Found(top.path)]
                  ELSE AStarExpand(g, e, top.pos, top.g, top.path, marked, 1)

RECURSIVE AStarRun(_, _, _)
AStarRun(g, e, st) == IF st.done THEN st ELSE AStarRun(g, e, AStarStep(g, e, st))

AStar_find_path(g, s, e) ==
  IF EmptyGrid(g) THEN None ELSE AStarRun(g, e, AStarInit(s)).result

(***************************************************************************)
(* pathfinders.py: DijkstraPathfinder                                      *)
(***************************************************************************)
DijkstraLess_mut_greatest(a, b) == a.dist > b.dist \/ (a.dist = b.dist /\ a.c > b.c)

\* Tuple order of the heap entries (distance, counter, ...).
DijkstraLess(a, b) == a.dist < b.dist \/ (a.dist = b.dist /\ a.c < b.c)

DijkstraPop(pq) == CHOOSE a \in pq : \A b \in pq \ {a} : DijkstraLess(a, b)

\* The for loop over directions (lines 146-162), from direction i on.
RECURSIVE DijkstraExpand(_, _, _, _, _, _)
DijkstraExpand(g, cur, dist, path, st, i) ==
  IF i > 4 THEN st
  ELSE LET next_x == cur[1] + Directions[i][1]
           next_y == cur[2] + Directions[i][2]
           next_pos == Position(next_x, next_y)
           new_dist == dist + 1
       IN IF /\ InBounds(next_x, next_y, GridWidth(g), GridHeight(g))
             /\ next_pos \notin st.visited
             /\ is_passable(g[next_y][next_x])
             /\ \/ next_pos \notin DOMAIN st.distances
                \/ new_dist < st.distances[next_pos]
          THEN LET entry == [dist |-> new_dist, c |-> st.counter + 1,
                             pos |-> next_pos,
                             path |-> Append(path, next_pos)]
               IN DijkstraExpand(g, cur, dist, path,
                                 [st EXCEPT !.distances =
                                              PutScore(@, next_pos, new_dist),
                                            !.counter = @ + 1,
                                            !.pq = @ \cup {entry}],
                                 i + 1)
          ELSE DijkstraExpand(g, cur, dist, path, st, i + 1)

DijkstraInit(s) ==
  [pq |-> {[dist |-> 0, c |-> 0, pos |-> s, path |-> <<s>>]},
   visited |-> {}, distances |-> [q \in {s} |-> 0], counter |-> 0,
   done |-> FALSE, result |-> None]

\* One iteration of "while pq" (lines 133-162), or "return None".
DijkstraStep(g, e, st) ==
  IF st.pq = {} THEN [st EXCEPT !.done = TRUE, !.result = None]
  ELSE LET top == DijkstraPop(st.pq)
           popped == [st EXCEPT !.pq = @ \ {top}]
       IN IF top.pos \in st.visited THEN popped
          ELSE LET marked == [popped EXCEPT !.visited = @ \cup {top.pos}]
               IN IF top.pos = e
                  THEN [marked EXCEPT !.done = TRUE, !.result = Found(top.path)]
                  ELSE DijkstraExpand(g, top.pos, top.dist, top.path, marked, 1)

RECURSIVE DijkstraRun(_, _, _)
DijkstraRun(g, e, st) ==
  IF st.done THEN st ELSE DijkstraRun(g, e, DijkstraStep(g, e, st))

Dijkstra_find_path(g, s, e) ==
  IF EmptyGrid(g) THEN None ELSE DijkstraRun(g, e, DijkstraInit(s)).result

(***************************************************************************)
(* pathfinders.py: DeadEndFillerPathfinder                                 *)
(***************************************************************************)
\* passable_neighbors of (x, y) in the working grid (lines 198-203).
PassableNeighbors(wg, x, y) ==
  Cardinality({i \in 1..4 :
     LET nx == x + Directions[i][1]
         ny == y + Directions[i][2]
     IN /\ InBounds(nx, ny, GridWidth(wg), GridHeight(wg))
        /\ wg[ny][nx] \in {EMPTY, START, END, PATH}})

IsDeadEnd_mut_two(wg, x, y) == PassableNeighbors(wg, x, y) <= 2

IsDeadEnd_mut_less(wg, x, y) == PassableNeighbors(wg, x, y) < 1

\* "if passable_neighbors <= 1"
IsDeadEnd(wg, x, y) == PassableNeighbors(wg, x, y) <= 1

\* One pass of the two nested for loops (lines 188-208) from cell number idx
\* on, in row-major order, filling in place.
RECURSIVE FillScan(_, _, _, _, _)
FillScan(wg, s, e, idx, changed) ==
  LET w == GridWidth(wg)
      h == GridHeight(wg)
  IN IF idx >= w * h THEN [grid |-> wg, changed |-> changed]
     ELSE LET x == idx % w
              y == idx \div w
              pos == Position(x, y)
          IN IF wg[y][x] \notin {EMPTY, PATH} \/ pos = s \/ pos = e
             THEN FillScan(wg, s, e, idx + 1, changed)
             ELSE IF IsDeadEnd(wg, x, y)
                  THEN FillScan(SetCell(wg, pos, WALL), s, e, idx + 1, TRUE)
                  ELSE FillScan(wg, s, e, idx + 1, changed)

\* "while changed" (lines 184-208): scans until one changes nothing.
RECURSIVE FillDeadEnds(_, _, _)
FillDeadEnds(wg, s, e) ==
  LET r == FillScan(wg, s, e, 0, FALSE)
  IN IF r.changed THEN FillDeadEnds(r.grid, s, e) ELSE r.grid

\* The cell types of working_grid at the fixed point.
WorkingGrid(g, s, e) == FillDeadEnds(g, s, e)

\* The lists find_path works on are objects: the row lists of the grid passed
\* in are the objects 1..height, grid[y] being object y + 1.
GridRows(g) == [y \in DOMAIN g |-> y + 1]

NewRows_mut_shallow(g) == GridRows(g)

\* Line 181, "[[cell.cell_type for cell in row] for row in grid]": every row
\* of working_grid is a new list, an object after those of the grid.
NewRows(g) == [y \in DOMAIN g |-> GridHeight(g) + y + 1]

\* The contents of the row objects when the scan loop is over (lines
\* 181-208): line 181 fills the rows of working_grid with the cell types of
\* the grid, and every store of line 207, "working_grid[y][x] = WALL", goes
\* into the object that is row y of working_grid.  No statement stores into
\* grid[y] or into a Cell.
RowsAfterFill(g, s, e) ==
  LET rows == NewRows(g)
      filled == WorkingGrid(g, s, e)
      objects == (1..GridHeight(g)) \cup {rows[y] : y \in DOMAIN g}
  IN [a \in objects |->
        IF \E y \in DOMAIN g : rows[y] = a
        THEN filled[CHOOSE y \in DOMAIN g : rows[y] = a]
        ELSE g[a - 1]]

\* The two grids when the scan loop is over, read through their rows.
DeadEndGrids(g, s, e) ==
  LET after == RowsAfterFill(g, s, e)
  IN [grid |-> [y \in DOMAIN g |-> after[GridRows(g)[y]]],
      working_grid |-> [y \in DOMAIN g |-> after[NewRows(g)[y]]]]

\* Lines 210-234: the BFS of lines 23-50 again, over the working grid.
DeadEnd_find_path(g, s, e) ==
  IF EmptyGrid(g) THEN None
  ELSE BFSRun(DeadEndGrids(g, s, e).working_grid, e, BFSInit(s)).result

(***************************************************************************)
(* The four strategies behind PathfinderInterface.find_path                *)
(***************************************************************************)
Pathfinders == {"bfs", "astar", "dijkstra", "deadend"}

find_path(pf, g, s, e) ==
  CASE pf = "bfs" -> BFS_find_path(g, s, e)
    [] pf = "astar" -> AStar_find_path(g, s, e)
    [] pf = "dijkstra" -> Dijkstra_find_path(g, s, e)
    [] pf = "deadend" -> DeadEnd_find_path(g, s, e)

\* The caller's grid when find_path has returned.  BFS, A* and Dijkstra
\* have no statement that stores into a list or a Cell (lines 23-50, 61-107,
\* 118-160), and neither has the early return on an empty grid; the
\* dead-end filler stores into the rows of its working grid.
grid_after(pf, g, s, e) ==
  IF pf = "deadend" /\ ~EmptyGrid(g) THEN DeadEndGrids(g, s, e).grid ELSE g

\* Maze takes any PathfinderInterface: besides the four of pathfinders.py,
\* "raising" stands for an implementation whose find_path raises an
\* exception that is an Exception (RuntimeError, ValueError, ...) and
\* "raising_base" for one whose find_path raises one that is not
\* (KeyboardInterrupt, SystemExit, GeneratorExit).
RAISING == "raising"
RAISING_BASE == "raising_base"

Strategies == Pathfinders \cup {RAISING, RAISING_BASE}

\* The kind of exception find_path of strategy pf ends with.
Raises(pf) ==
  CASE pf = RAISING -> "Exception"
    [] pf = RAISING_BASE -> "BaseException"
    [] OTHER -> "none"

\* self.pathfinder.find_path(self.grid, self.start_pos, self.end_pos) as
\* Maze.solve sees it: an exception, or a result and the grid left behind.
CallStrategy(pf, g, s, e) ==
  IF Raises(pf) # "none"
  THEN [raised |-> TRUE, exc |-> Raises(pf), result |-> None, grid |-> g]
  ELSE [raised |-> FALSE, exc |-> "none", result |-> find_path(pf, g, s, e),
        grid |-> grid_after(pf, g, s, e)]

SolveEnd_mut_swallow(r) == "returned"

\* The try/except of Maze.solve: "except Exception" (line 117) turns an
\* Exception of the strategy into PathfindingError, any other exception of
\* the strategy leaves solve() as it is, and a result is returned.
SolveEnd(r) ==
  IF ~r.raised THEN "returned"
  ELSE IF r.exc = "Exception" THEN "PathfindingError"
  ELSE r.exc

SolveCache_mut_not_stored(old, r) == old

\* "self._solution_path = self.pathfinder.find_path(...)": the assignment
\* happens when the call returns, whatever it returns.
SolveCache(old, r) == IF r.raised THEN old ELSE r.result

(***************************************************************************)
(* The random source.  random.seed(seed) fixes the whole stream of later   *)
(* draws as a function of the seed; which function is not known to the     *)
(* model, so the stream of a seed is chosen freely the first time each of  *)
(* its places is drawn and recorded on a tape, and every later draw at     *)
(* that place of that seed repeats the recorded value.  An unseeded source *)
(* yields any value.  A draw is a sequence of integers: <<i>> for          *)
(* random.choice (the index chosen), a permutation for random.shuffle.     *)
(***************************************************************************)
\* seed=42 of the repository's test.
TestSeed == 42

NoSeed == -1

Seeds == {TestSeed}

Unseeded == [seeded |-> FALSE, seed |-> NoSeed, pos |-> 0]

seed_rng_mut_ignore(r, seed) == r

\* "if seed is not None: random.seed(seed)"
seed_rng(r, seed) ==
  IF seed # NoSeed THEN [seeded |-> TRUE, seed |-> seed, pos |-> 0] ELSE r

\* Whether the source in state r can yield the value v next.
CanDraw(r, tp, v) ==
  IF ~r.seeded THEN TRUE
  ELSE IF r.pos >= Len(tp[r.seed]) THEN TRUE
       ELSE tp[r.seed][r.pos + 1] = v

RngAfter(r) == IF r.seeded THEN [r EXCEPT !.pos = @ + 1] ELSE r

TapeAfter(r, tp, v) ==
  IF r.seeded /\ r.pos >= Len(tp[r.seed])
  THEN [tp EXCEPT ![r.seed] = Append(@, v)]
  ELSE tp

(***************************************************************************)
(* generators.py: RecursiveBacktrackGenerator                              *)
(***************************************************************************)
\* The greatest number of nested calls of _recursive_backtrack (line 164)
\* that Python's recursion limit, 1000 unless the host changes it, allows:
\* with Maze(...) called from the top level of a script the 991st call runs
\* and the 992nd raises RecursionError (inside the call, at line 142).
MaxRecursionDepth == 991

\* Every frame open in the host when Maze(...) is called takes one call off:
\* whether the k-th nested call raises with hf frames open.
CallRaises(k, hf) == k > MaxRecursionDepth - hf

Perms4 == {p \in [1..4 -> 1..4] : \A i, j \in 1..4 : p[i] = p[j] => i = j}

\* The outcomes of random.shuffle(directions) (line 146), as sequences of
\* indices into directions: any of the 24 orders.
ShuffleOutcomes == Perms4

\* wall_x = x + dx // 2, wall_y = y + dy // 2
RecWall(pos, d) ==
  Position(pos[1] + GenDirections[d][1] \div 2,
           pos[2] + GenDirections[d][2] \div 2)

RecNext(pos, d) ==
  Position(pos[1] + GenDirections[d][1], pos[2] + GenDirections[d][2])

\* "Check bounds and if cell is a wall" (lines 153-154)
RecCanVisit(g, pos, d, w, h) ==
  LET n == RecNext(pos, d)
  IN InBounds(n[1], n[2], w, h) /\ g[n[2]][n[1]] = WALL

(***************************************************************************)
(* generators.py: every grid a generate call can return, over all the      *)
(* outcomes of random.choice and random.shuffle.                           *)
(***************************************************************************)
\* The grid g as a function evaluated in full.  TLC keeps the constructor of
\* NewGrid unevaluated under the EXCEPTs of the carving, and such a value
\* cannot be compared with a grid of a state; comparing it evaluates it.
Evaluated(g) == IF g = g THEN g ELSE <<>>

\* "while stack" (lines 42-72) from the state (g, stk, vis) on: the grids it
\* can end with.
RECURSIVE IterativeCarvings(_, _, _, _, _)
IterativeCarvings(g, stk, vis, w, h) ==
  IF stk = <<>> THEN {g}
  ELSE LET current_pos == stk[Len(stk)]
           unvisited_neighbors == get_unvisited_neighbors(current_pos, w, h, vis)
       IN IF unvisited_neighbors = <<>>
          THEN IterativeCarvings(g, SubSeq(stk, 1, Len(stk) - 1), vis, w, h)
          ELSE UNION {
                 LET next_pos == unvisited_neighbors[i]
                     wall_pos == WallBetween(current_pos, next_pos)
                 IN IterativeCarvings(MarkEmpty(MarkEmpty(g, next_pos), wall_pos),
                                      Append(stk, next_pos),
                                      vis \cup {next_pos}, w, h)
                 : i \in 1..Len(unvisited_neighbors)}

\* IterativeRecursiveBacktrackGenerator.generate (lines 23-77).
IterativeGrids(w, h, s, e) ==
  {ensure_exit_path(g, e, c) :
     g \in IterativeCarvings(Evaluated(NewGrid(w, h, s, e)), <<s>>, {s}, w, h),
     c \in BOOLEAN}

\* _recursive_backtrack (lines 138-164): RecursiveCarvings is the call for
\* pos on grid g as the depth-th nested call, RecursiveLoop its for loop from
\* the i-th entry of the shuffled directions on, for each grid of gs.  A
\* call that exceeds the recursion limit in every host raises and returns no
\* grid.
RECURSIVE RecursiveCarvings(_, _, _, _, _)
RECURSIVE RecursiveLoop(_, _, _, _, _, _, _)
RecursiveCarvings(g, pos, w, h, depth) ==
  IF \A hf \in 0..MaxHostFrames : CallRaises(depth, hf) THEN {}
  ELSE UNION {RecursiveLoop({MarkEmpty(g, pos)}, pos, directions, 1, w, h, depth) :
                directions \in ShuffleOutcomes}

RecursiveLoop(gs, pos, directions, i, w, h, depth) ==
  IF i > 4 THEN gs
  ELSE RecursiveLoop(
         UNION {IF RecCanVisit(g1, pos, directions[i], w, h)
                THEN RecursiveCarvings(MarkEmpty(g1, RecWall(pos, directions[i])),
                                       RecNext(pos, directions[i]), w, h,
                                       depth + 1)
                ELSE {g1} : g1 \in gs},
         pos, directions, i + 1, w, h, depth)

\* RecursiveBacktrackGenerator.generate (lines 121-136).
RecursiveGrids(w, h, s, e) ==
  {ensure_exit_path(g, e, c) :
     g \in RecursiveCarvings(Evaluated(NewGrid(w, h, s, e)), s, w, h, 1),
     c \in BOOLEAN}

(***************************************************************************)
(* State                                                                   *)
(***************************************************************************)
VARIABLES
  pc,             \* where the program is
  generator,      \* "iterative" or "recursive": the generator object in use
  pathfinder,     \* the Maze's pathfinder strategy
  width, height,  \* Maze.width, Maze.height
  start_pos, end_pos,
  grid,           \* the grid being generated, then Maze.grid
  solution_path,  \* Maze._solution_path
  stack, visited, \* locals of the iterative generate
  frames,         \* call stack of _recursive_backtrack: [pos, dirs, i]
  rng, tape,      \* the global random source
  grids,          \* what the generate calls so far returned: [run, grid]
  run,            \* number of generator objects constructed so far
  req,            \* <<width, height>> as requested
  call,           \* the last call of find_path, direct or by Maze.solve: its
                  \* arguments, its outcome and how solve ended
  search,         \* locals of a find_path call that is followed step by step
  gui             \* the MazeGUI object, its Maze objects and worker threads

vars == <<pc, generator, pathfinder, width, height, start_pos, end_pos, grid,
          solution_path, stack, visited, frames, rng, tape, grids, run, req,
          call, search, gui>>

Generators == {"iterative", "recursive"}

NoCall == [pf |-> "none", grid |-> <<>>, start |-> <<0, 0>>, end |-> <<0, 0>>,
           returned |-> FALSE, raised |-> FALSE, result |-> None,
           grid_after |-> <<>>, solve |-> "none"]

NoSearch == [alg |-> "none"]

\* MazeGUI.__init__ (gui.py:104-111): no maze, nothing shown, no worker.
\* current_maze is the number of a Maze object in mazes, or NoMaze for None;
\* mazes[m] tells whether Maze m has a cached solution path.
NoMaze == 0

NewGui ==
  [current_maze |-> NoMaze, show_solution |-> FALSE, generating |-> FALSE,
   solving |-> FALSE, mazes |-> <<>>, generate_threads |-> <<>>,
   solve_threads |-> <<>>]

genLocals == <<stack, visited, frames>>
mazeFields == <<width, height, start_pos, end_pos, solution_path, pathfinder, req>>

InitCommon ==
  /\ pathfinder = "bfs"
  /\ width = 0 /\ height = 0
  /\ start_pos = <<0, 0>> /\ end_pos = <<0, 0>>
  /\ grid = <<>>
  /\ solution_path = None
  /\ stack = <<>> /\ visited = {} /\ frames = <<>>
  /\ tape = [s \in Seeds |-> <<>>]
  /\ grids = <<>>
  /\ req = <<0, 0>>
  /\ search = NoSearch
  /\ gui = NewGui

(***************************************************************************)
(* Actions                                                                 *)
(***************************************************************************)
\* generators.py:18-21 and 117-119: constructing a generator, with a seed or
\* without one.
NewGenerator(gen, seed) ==
  /\ pc = "start"
  /\ generator' = gen
  /\ rng' = seed_rng(rng, seed)
  /\ run' = run + 1
  /\ pc' = "idle"
  /\ UNCHANGED <<gui, search, mazeFields, grid, genLocals, tape, grids, call>>

\* Maze.__init__ (maze_core.py:88-96), up to the call of _generate_maze.
Create(w, h, pf) ==
  /\ pc = "idle"
  /\ req' = <<w, h>>
  /\ width' = ensure_odd(w)
  /\ height' = ensure_odd(h)
  /\ pathfinder' = pf
  /\ grid' = <<>>
  /\ start_pos' = Position(1, 1)
  /\ end_pos' = Position(ensure_odd(w) - 2, ensure_odd(h) - 2)
  /\ solution_path' = None
  /\ pc' = "created"
  /\ UNCHANGED <<gui, search, generator, genLocals, rng, tape, grids, run, call>>

\* generate raises, and _generate_maze (maze_core.py:105-110) turns the
\* exception into MazeGenerationError; Maze.grid stays empty.  IndexError at
\* line 29 (127) when the start cell is not in the grid; RecursionError when
\* the loop of the innermost call of _recursive_backtrack is about to make a
\* call (line 164) that exceeds the recursion limit in the host, whatever
\* number of frames, up to MaxHostFrames, the host has open.
GenerateRaises ==
  /\ IF pc = "created"
     THEN ~Indexable(start_pos, width, height)
     ELSE /\ pc = "rec"
          /\ frames # <<>>
          /\ frames[Len(frames)].i <= 4
          /\ RecCanVisit(grid, frames[Len(frames)].pos,
                         frames[Len(frames)].dirs[frames[Len(frames)].i],
                         width, height)
          /\ ~(\A hf \in 0..MaxHostFrames : ~CallRaises(Len(frames) + 1, hf))
  /\ pc' = "gen_error"
  /\ grid' = <<>>
  /\ frames' = <<>>
  /\ UNCHANGED <<gui, search, generator, mazeFields, stack, visited, rng, tape,
                 grids, run, call>>

\* Iterative generate, lines 26-40.
IterBegin ==
  /\ pc = "created"
  /\ generator = "iterative"
  /\ Indexable(start_pos, width, height)
  /\ grid' = NewGrid(width, height, start_pos, end_pos)
  /\ stack' = <<start_pos>>
  /\ visited' = {start_pos}
  /\ pc' = "iter"
  /\ UNCHANGED <<gui, search, generator, mazeFields, frames, rng, tape, grids, run, call>>

\* One iteration of "while stack" with an unvisited neighbour (lines 43-69).
IterCarve ==
  /\ pc = "iter"
  /\ stack # <<>>
  /\ LET current_pos == stack[Len(stack)]
         unvisited_neighbors ==
           get_unvisited_neighbors(current_pos, width, height, visited)
     IN /\ unvisited_neighbors # <<>>
        /\ \E i \in 1..Len(unvisited_neighbors) :
             LET next_pos == unvisited_neighbors[i]
                 wall_pos == WallBetween(current_pos, next_pos)
             IN /\ CanDraw(rng, tape, <<i>>)
                /\ tape' = TapeAfter(rng, tape, <<i>>)
                /\ rng' = RngAfter(rng)
                /\ grid' = MarkEmpty(MarkEmpty(grid, next_pos), wall_pos)
                /\ visited' = visited \cup {next_pos}
                /\ stack' = Append(stack, next_pos)
  /\ UNCHANGED <<gui, search, pc, generator, mazeFields, frames, grids, run, call>>

\* One iteration of "while stack" without one (lines 43-48, 70-72).
IterBacktrack ==
  /\ pc = "iter"
  /\ stack # <<>>
  /\ get_unvisited_neighbors(stack[Len(stack)], width, height, visited) = <<>>
  /\ stack' = SubSeq(stack, 1, Len(stack) - 1)
  /\ UNCHANGED <<gui, search, pc, generator, mazeFields, grid, visited, frames, rng, tape,
                 grids, run, call>>

\* The exit step and the return (lines 75-77 or 134-136), after which
\* _generate_maze stores the grid in the Maze.
ExitAndReturn ==
  \E c \in {0, 1} :
    /\ CanDraw(rng, tape, <<c>>)
    /\ tape' = TapeAfter(rng, tape, <<c>>)
    /\ rng' = RngAfter(rng)
    /\ grid' = ensure_exit_path(grid, end_pos, c = 1)
    /\ grids' = Append(grids, [run |-> run, grid |-> grid'])
    /\ pc' = "generated"
    /\ UNCHANGED <<gui, search, generator, mazeFields, genLocals, run, call>>

IterExit ==
  /\ pc = "iter"
  /\ stack = <<>>
  /\ ExitAndReturn

\* Recursive generate, lines 124-131, and the entry of the first call of
\* _recursive_backtrack (lines 141-146).
RecBegin ==
  /\ pc = "created"
  /\ generator = "recursive"
  /\ Indexable(start_pos, width, height)
  /\ \E p \in ShuffleOutcomes :
       /\ CanDraw(rng, tape, p)
       /\ tape' = TapeAfter(rng, tape, p)
       /\ rng' = RngAfter(rng)
       /\ frames' = <<[pos |-> start_pos, dirs |-> p, i |-> 1]>>
  /\ grid' = MarkEmpty(NewGrid(width, height, start_pos, end_pos), start_pos)
  /\ pc' = "rec"
  /\ UNCHANGED <<gui, search, generator, mazeFields, stack, visited, grids, run, call>>

\* One iteration of the for loop of the innermost call whose test holds
\* (lines 148-164): carve the wall, and enter the call for the next cell
\* (lines 141-146).
RecCarve ==
  /\ pc = "rec"
  /\ frames # <<>>
  /\ LET n == Len(frames)
         top == frames[n]
     IN /\ top.i <= 4
        /\ RecCanVisit(grid, top.pos, top.dirs[top.i], width, height)
        /\ ~(\A hf \in 0..MaxHostFrames : CallRaises(n + 1, hf))
        /\ LET next_pos == RecNext(top.pos, top.dirs[top.i])
               wall_pos == RecWall(top.pos, top.dirs[top.i])
           IN /\ grid' = MarkEmpty(MarkEmpty(grid, wall_pos), next_pos)
              /\ \E p \in ShuffleOutcomes :
                   /\ CanDraw(rng, tape, p)
                   /\ tape' = TapeAfter(rng, tape, p)
                   /\ rng' = RngAfter(rng)
                   /\ frames' = Append([frames EXCEPT ![n].i = @ + 1],
                                       [pos |-> next_pos, dirs |-> p, i |-> 1])
  /\ UNCHANGED <<gui, search, pc, generator, mazeFields, stack, visited, grids, run, call>>

\* One iteration of the for loop whose test fails.
RecSkip ==
  /\ pc = "rec"
  /\ frames # <<>>
  /\ LET n == Len(frames)
         top == frames[n]
     IN /\ top.i <= 4
        /\ ~RecCanVisit(grid, top.pos, top.dirs[top.i], width, height)
        /\ frames' = [frames EXCEPT ![n].i = @ + 1]
  /\ UNCHANGED <<gui, search, pc, generator, mazeFields, grid, stack, visited, rng, tape,
                 grids, run, call>>

\* The for loop of the innermost call is over: the call returns.
RecReturn ==
  /\ pc = "rec"
  /\ frames # <<>>
  /\ frames[Len(frames)].i > 4
  /\ frames' = SubSeq(frames, 1, Len(frames) - 1)
  /\ UNCHANGED <<gui, search, pc, generator, mazeFields, grid, stack, visited, rng, tape,
                 grids, run, call>>

RecExit ==
  /\ pc = "rec"
  /\ frames = <<>>
  /\ ExitAndReturn

\* Maze.solve (maze_core.py:112-118).
Solve ==
  /\ pc = "generated"
  /\ LET r == CallStrategy(pathfinder, grid, start_pos, end_pos)
     IN /\ solution_path' = SolveCache(solution_path, r)
        /\ grid' = r.grid
        /\ call' = [pf |-> pathfinder, grid |-> grid, start |-> start_pos,
                    end |-> end_pos, returned |-> ~r.raised, raised |-> r.raised,
                    result |-> r.result, grid_after |-> r.grid,
                    solve |-> SolveEnd(r)]
  /\ UNCHANGED <<gui, search, pc, generator, pathfinder, width, height, start_pos, end_pos,
                 req, genLocals, rng, tape, grids, run>>

Generate ==
  \/ GenerateRaises
  \/ IterBegin \/ IterCarve \/ IterBacktrack \/ IterExit
  \/ RecBegin \/ RecCarve \/ RecSkip \/ RecReturn \/ RecExit

(***************************************************************************)
(* Spec: one unseeded generator, one Maze, any random choices.             *)
(***************************************************************************)
\* The sizes requested of Maze(...) with generator gen.
SizeInBounds(gen, w, h) ==
  /\ w <= MaxReqW
  /\ gen = "recursive" => (w <= RecMaxReq /\ h <= RecMaxReq)

\* The long mazes requested besides.
LongInBounds(gen, w, h, pf) ==
  /\ gen = "recursive" /\ pf = "bfs"
  /\ w <= RecLongReqW /\ h <= RecLongReqH

\* The widths requested of Maze(...), of either kind.
ReqWidths == 1..(IF RecLongReqW > MaxReqW THEN RecLongReqW ELSE MaxReqW)

Init ==
  /\ InitCommon
  /\ pc = "start"
  /\ generator = "iterative"
  /\ rng = Unseeded
  /\ run = 0
  /\ call = NoCall

Next ==
  \/ \E gen \in Generators : NewGenerator(gen, NoSeed)
  \/ \E w \in ReqWidths, h \in 1..MaxReqH, pf \in Strategies :
       /\ IF SizeInBounds(generator, w, h) THEN TRUE
          ELSE LongInBounds(generator, w, h, pf)
       /\ Create(w, h, pf)
  \/ Generate
  \/ Solve

Spec == Init /\ [][Next]_vars

(***************************************************************************)
(* SpecSeed: a generator constructed with a seed generates once; then the  *)
(* program is run again: a fresh random source, a generator of the same    *)
(* strategy constructed with the same seed, the same Maze.                 *)
(***************************************************************************)
InitSeed ==
  /\ InitCommon
  /\ pc = "start"
  /\ generator = "iterative"
  /\ rng = Unseeded
  /\ run = 0
  /\ call = NoCall

\* The program ends and is started again.
Rerun ==
  /\ pc = "generated"
  /\ run = 1
  /\ pc' = "start"
  /\ rng' = Unseeded
  /\ UNCHANGED <<gui, search, generator, mazeFields, grid, genLocals, tape, grids, run, call>>

NextSeed ==
  \/ \E gen \in Generators :
       (run = 0 \/ gen = generator) /\ NewGenerator(gen, TestSeed)
  \/ \E w \in 1..MaxReqW, h \in 1..MaxReqH :
       /\ SizeInBounds(generator, w, h)
       /\ run = 1 \/ req = <<w, h>>
       /\ Create(w, h, "bfs")
  \/ Generate
  \/ Rerun

SpecSeed == InitSeed /\ [][NextSeed]_vars

(***************************************************************************)
(* SpecAgain: one iterative generator constructed with a seed serves       *)
(* several Mazes of the same size, one after the other, each with a        *)
(* pathfinder of its own and solved (test_pathfinders.py:15-28).           *)
(***************************************************************************)
\* The loop of the test comes round: the next Maze(...) is about to be built.
Again ==
  /\ pc = "generated"
  /\ Len(grids) < AgainMazes
  /\ pc' = "idle"
  /\ UNCHANGED <<gui, search, generator, mazeFields, grid, genLocals, rng, tape, grids, run,
                 call>>

NextAgain ==
  \/ NewGenerator("iterative", TestSeed)
  \/ \E w \in 1..AgainMaxReq, h \in 1..AgainMaxReq, pf \in Pathfinders :
       (grids = <<>> \/ req = <<w, h>>) /\ Create(w, h, pf)
  \/ GenerateRaises \/ IterBegin \/ IterCarve \/ IterBacktrack \/ IterExit
  \/ Solve
  \/ Again

SpecAgain == InitSeed /\ [][NextAgain]_vars

(***************************************************************************)
(* SpecPath: find_path of each strategy called on any grid of cell types   *)
(* Wall and Empty within the bounds, the grid without rows and the grids   *)
(* of empty rows included, with any start and end in the grid, at (0, 0)   *)
(* or at (-1, 0), outside.                                                 *)
(***************************************************************************)
PathDims ==
  {d \in (0..PathW) \X (0..PathH) : d[1] * d[2] <= MaxCells /\ (d[2] = 0 => d[1] = 0)}

PathGrids ==
  UNION {[0..(d[2] - 1) -> [0..(d[1] - 1) -> {WALL, EMPTY}]] : d \in PathDims}

PathPositions(g) ==
  {Position(x, y) : x \in 0..(GridWidth(g) - 1), y \in 0..(GridHeight(g) - 1)}
    \cup {Position(0, 0), Position(-1, 0)}

InitPath ==
  /\ InitCommon
  /\ pc = "call"
  /\ generator = "iterative"
  /\ rng = Unseeded
  /\ run = 0
  /\ \E g \in PathGrids :
       \E s \in PathPositions(g), e \in PathPositions(g) :
         call = [pf |-> "none", grid |-> g, start |-> s, end |-> e,
                 returned |-> FALSE, raised |-> FALSE, result |-> None,
                 grid_after |-> g, solve |-> "none"]

\* PathfinderInterface.find_path of the strategy pf, called and returned.
FindPathCall(pf) ==
  /\ pc = "call"
  /\ ~call.returned
  /\ call' = [call EXCEPT !.pf = pf, !.returned = TRUE,
                          !.result = find_path(pf, call.grid, call.start, call.end),
                          !.grid_after = grid_after(pf, call.grid, call.start,
                                                    call.end)]
  /\ UNCHANGED <<gui, search, pc, generator, mazeFields, grid, genLocals, rng, tape, grids, run>>

NextPath == \E pf \in Pathfinders : FindPathCall(pf)

SpecPath == InitPath /\ [][NextPath]_vars

(***************************************************************************)
(* SpecWide: find_path of each strategy called on the longer grids of cell *)
(* types Wall and Empty, with start and end each a passable cell of the    *)
(* grid or (-1, 0), outside.                                               *)
(***************************************************************************)
WideDims ==
  {d \in (1..WideW) \X (1..WideH) : d[1] * d[2] <= WideCells}

WideGrids ==
  UNION {[0..(d[2] - 1) -> [0..(d[1] - 1) -> {WALL, EMPTY}]] : d \in WideDims}

WidePositions(g) ==
  {p \in PathPositions(g) \ {Position(-1, 0)} : is_passable(g[p[2]][p[1]])}
    \cup {Position(-1, 0)}

InitWide ==
  /\ InitCommon
  /\ pc = "call"
  /\ generator = "iterative"
  /\ rng = Unseeded
  /\ run = 0
  /\ \E g \in WideGrids :
       \E s \in WidePositions(g), e \in WidePositions(g) :
         call = [pf |-> "none", grid |-> g, start |-> s, end |-> e,
                 returned |-> FALSE, raised |-> FALSE, result |-> None,
                 grid_after |-> g, solve |-> "none"]

SpecWide == InitWide /\ [][NextPath]_vars

(***************************************************************************)
(* SpecAStar: AStarPathfinder.find_path followed one iteration of its      *)
(* "while open_set" loop at a time, on grids with few walls, from any cell *)
(* of the first column to any cell of the last.                            *)
(***************************************************************************)
AcrossDims ==
  {d \in (1..AcrossW) \X (1..AcrossH) : d[1] * d[2] <= AcrossCells}

AcrossGrids ==
  UNION {{g \in [0..(d[2] - 1) -> [0..(d[1] - 1) -> {WALL, EMPTY}]] :
            Cardinality({p \in (0..(d[1] - 1)) \X (0..(d[2] - 1)) :
                           g[p[2]][p[1]] = WALL}) <= AcrossWalls} :
         d \in AcrossDims}

InitAStar ==
  /\ InitCommon
  /\ pc = "call"
  /\ generator = "iterative"
  /\ rng = Unseeded
  /\ run = 0
  /\ \E g \in AcrossGrids :
       \E sy \in 0..(GridHeight(g) - 1), ey \in 0..(GridHeight(g) - 1) :
         call = [pf |-> "none", grid |-> g, start |-> Position(0, sy),
                 end |-> Position(GridWidth(g) - 1, ey),
                 returned |-> FALSE, raised |-> FALSE, result |-> None,
                 grid_after |-> g, solve |-> "none"]

\* Lines 58-70: the grid is not empty; the locals are set up.
AStarBegin ==
  /\ pc = "call"
  /\ ~call.returned
  /\ ~EmptyGrid(call.grid)
  /\ search' = [alg |-> "astar", st |-> AStarInit(call.start)]
  /\ pc' = "astar"
  /\ UNCHANGED <<gui, generator, mazeFields, grid, genLocals, rng, tape, grids, run,
                 call>>

\* One iteration of "while open_set" (lines 72-105).
AStarIter ==
  /\ pc = "astar"
  /\ ~search.st.done
  /\ search.st.open # {}
  /\ search' = [search EXCEPT !.st = AStarStep(call.grid, call.end, @)]
  /\ UNCHANGED <<gui, pc, generator, mazeFields, grid, genLocals, rng, tape, grids,
                 run, call>>

\* "return path" (line 81), or "return None" (line 107) when open_set is
\* empty.
AStarReturn ==
  /\ pc = "astar"
  /\ search.st.done \/ search.st.open = {}
  /\ call' = [call EXCEPT !.pf = "astar", !.returned = TRUE,
                          !.result = search.st.result]
  /\ pc' = "call"
  /\ UNCHANGED <<gui, generator, mazeFields, grid, genLocals, rng, tape, grids, run,
                 search>>

NextAStar == AStarBegin \/ AStarIter \/ AStarReturn

SpecAStar == InitAStar /\ [][NextAStar]_vars

(***************************************************************************)
(* SpecFill: DeadEndFillerPathfinder.find_path followed one scan of its    *)
(* "while changed" loop at a time, on any grid of cell types Wall and      *)
(* Empty within the bounds, with any start and end in the grid.            *)
(***************************************************************************)
FillDims ==
  {d \in (1..FillW) \X (1..FillH) : d[1] * d[2] <= FillCells}

FillGrids ==
  UNION {[0..(d[2] - 1) -> [0..(d[1] - 1) -> {WALL, EMPTY}]] : d \in FillDims}

InitFill ==
  /\ InitCommon
  /\ pc = "call"
  /\ generator = "iterative"
  /\ rng = Unseeded
  /\ run = 0
  /\ call = NoCall

\* find_path(g, s, e) is called, lines 175-184: the grid is not empty; the
\* working copy is made and changed is set.
FillBegin(g, s, e) ==
  /\ pc = "call"
  /\ call = NoCall
  /\ ~EmptyGrid(g)
  /\ call' = [NoCall EXCEPT !.grid = g, !.start = s, !.end = e, !.grid_after = g]
  /\ search' = [alg |-> "deadend", working_grid |-> g, changed |-> TRUE]
  /\ pc' = "fill"
  /\ UNCHANGED <<gui, generator, mazeFields, grid, genLocals, rng, tape, grids, run>>

\* One iteration of "while changed" (lines 185-208): a scan of every cell.
FillPass ==
  /\ pc = "fill"
  /\ search.changed
  /\ LET r == FillScan(search.working_grid, call.start, call.end, 0, FALSE)
     IN search' = [search EXCEPT !.working_grid = r.grid, !.changed = r.changed]
  /\ UNCHANGED <<gui, pc, generator, mazeFields, grid, genLocals, rng, tape, grids,
                 run, call>>

\* The loop is over: the BFS over the working grid and the return (lines
\* 210-234).
FillSearch ==
  /\ pc = "fill"
  /\ ~search.changed
  /\ call' = [call EXCEPT !.pf = "deadend", !.returned = TRUE,
                          !.result = BFSRun(search.working_grid, call.end,
                                            BFSInit(call.start)).result]
  /\ pc' = "call"
  /\ UNCHANGED <<gui, generator, mazeFields, grid, genLocals, rng, tape, grids, run,
                 search>>

NextFill ==
  \/ /\ call = NoCall
     /\ \E g \in FillGrids :
          \E s \in (0..(GridWidth(g) - 1)) \X (0..(GridHeight(g) - 1)),
             e \in (0..(GridWidth(g) - 1)) \X (0..(GridHeight(g) - 1)) :
            FillBegin(g, s, e)
  \/ FillPass
  \/ FillSearch

SpecFill == InitFill /\ [][NextFill]_vars

(***************************************************************************)
(* SpecGui: the GUI host (gui.py).  The main thread handles the clicks on  *)
(* Generate, Solve and Clear Path; generate_maze and solve_maze each start *)
(* a worker thread, and the statements of the workers interleave with each *)
(* other and with the main thread.  A Maze object is followed only as far  *)
(* as whether it has a cached solution path: Maze(...) returns a Maze or   *)
(* raises, and at the GUI's sizes, at least 5x5, solve finds a path.       *)
(***************************************************************************)
notGui == <<pc, generator, pathfinder, width, height, start_pos, end_pos, grid,
            solution_path, stack, visited, frames, rng, tape, grids, run, req,
            call, search>>

InitGui ==
  /\ InitCommon
  /\ pc = "gui"
  /\ generator = "iterative"
  /\ rng = Unseeded
  /\ run = 0
  /\ call = NoCall

\* handle_mouse_click line 844-845 and generate_maze lines 696-729: the
\* Generate button when not generating; the worker is started.
ClickGenerate ==
  /\ pc = "gui"
  /\ ~gui.generating
  /\ Len(gui.generate_threads) < MaxGenerateThreads
  /\ gui' = [gui EXCEPT !.generating = TRUE,
                        !.generate_threads = Append(@, [at |-> "maze"])]
  /\ UNCHANGED notGui

\* generate_thread line 720: self.current_maze = Maze(...), a new Maze
\* without a solution path.
GenerateThreadMaze ==
  \E t \in 1..Len(gui.generate_threads) :
    /\ gui.generate_threads[t].at = "maze"
    /\ gui' = [gui EXCEPT !.mazes = Append(@, FALSE),
                          !.current_maze = Len(gui.mazes) + 1,
                          !.generate_threads[t].at = "generating"]
    /\ UNCHANGED notGui

\* generate_thread line 720 when Maze(...) raises, and the except branch
\* (lines 725-727): current_maze and show_solution stay as they are.  With
\* the recursive generator and a size of about 91x91 or more, which the GUI
\* accepts, Maze(...) raises MazeGenerationError (GenerateRaises).
GenerateThreadRaises ==
  \E t \in 1..Len(gui.generate_threads) :
    /\ gui.generate_threads[t].at = "maze"
    /\ gui' = [gui EXCEPT !.generating = FALSE,
                          !.generate_threads[t].at = "done"]
    /\ UNCHANGED notGui

\* generate_thread line 721: self.generating = False
GenerateThreadGenerating ==
  \E t \in 1..Len(gui.generate_threads) :
    /\ gui.generate_threads[t].at = "generating"
    /\ gui' = [gui EXCEPT !.generating = FALSE,
                          !.generate_threads[t].at = "show_solution"]
    /\ UNCHANGED notGui

\* generate_thread line 722: self.show_solution = False
GenerateThreadShowSolution ==
  \E t \in 1..Len(gui.generate_threads) :
    /\ gui.generate_threads[t].at = "show_solution"
    /\ gui' = [gui EXCEPT !.show_solution = FALSE,
                          !.generate_threads[t].at = "done"]
    /\ UNCHANGED notGui

\* handle_mouse_click line 846-847 and solve_maze lines 735-758: the Solve
\* button with a maze and not solving; the worker is started.
ClickSolve ==
  /\ pc = "gui"
  /\ gui.current_maze # NoMaze
  /\ ~gui.solving
  /\ Len(gui.solve_threads) < MaxSolveThreads
  /\ gui' = [gui EXCEPT !.solving = TRUE,
                        !.solve_threads =
                           Append(@, [at |-> "current_maze", maze |-> NoMaze,
                                      path |-> FALSE])]
  /\ UNCHANGED notGui

\* solve_thread line 746, the read of self.current_maze.
SolveThreadCurrentMaze ==
  \E t \in 1..Len(gui.solve_threads) :
    /\ gui.solve_threads[t].at = "current_maze"
    /\ gui' = [gui EXCEPT !.solve_threads[t].maze = gui.current_maze,
                          !.solve_threads[t].at = "solve"]
    /\ UNCHANGED notGui

\* solve_thread line 746, the call of solve() on the Maze that was read:
\* the Maze caches the path (maze_core.py:115) and returns it.
SolveThreadSolve ==
  \E t \in 1..Len(gui.solve_threads) :
    /\ gui.solve_threads[t].at = "solve"
    /\ gui' = [gui EXCEPT !.mazes[gui.solve_threads[t].maze] = TRUE,
                          !.solve_threads[t].path = TRUE,
                          !.solve_threads[t].at = "solving"]
    /\ UNCHANGED notGui

\* solve_thread line 747: self.solving = False
SolveThreadSolving ==
  \E t \in 1..Len(gui.solve_threads) :
    /\ gui.solve_threads[t].at = "solving"
    /\ gui' = [gui EXCEPT !.solving = FALSE,
                          !.solve_threads[t].at = "show_solution"]
    /\ UNCHANGED notGui

\* solve_thread lines 748-749: if path: self.show_solution = True
SolveThreadShowSolution ==
  \E t \in 1..Len(gui.solve_threads) :
    /\ gui.solve_threads[t].at = "show_solution"
    /\ gui' = [gui EXCEPT !.show_solution =
                             IF gui.solve_threads[t].path THEN TRUE ELSE @,
                          !.solve_threads[t].at = "done"]
    /\ UNCHANGED notGui

\* handle_mouse_click line 848-849 and clear_solution lines 764-767.
ClickClear ==
  /\ pc = "gui"
  /\ gui.current_maze # NoMaze
  /\ gui.show_solution
  /\ gui' = [gui EXCEPT !.show_solution = FALSE]
  /\ UNCHANGED notGui

NextGui ==
  \/ ClickGenerate
  \/ ClickSolve
  \/ ClickClear
  \/ GenerateThreadMaze
  \/ GenerateThreadRaises
  \/ GenerateThreadGenerating
  \/ GenerateThreadShowSolution
  \/ SolveThreadCurrentMaze
  \/ SolveThreadSolve
  \/ SolveThreadSolving
  \/ SolveThreadShowSolution

SpecGui == InitGui /\ [][NextGui]_vars

(***************************************************************************)
(* Graph of the passable cells of a grid, for stating the properties.      *)
(***************************************************************************)
CellsOf(g) ==
  {Position(x, y) : x \in 0..(GridWidth(g) - 1), y \in 0..(GridHeight(g) - 1)}

OpenCells(g) == {p \in CellsOf(g) : g[p[2]][p[1]] # WALL}

Adjacent(p, q) == Abs(p[1] - q[1]) + Abs(p[2] - q[2]) = 1

\* The open cells joined to those of S by 4-adjacent open cells.
RECURSIVE ReachFrom(_, _)
ReachFrom(g, S) ==
  LET N == S \cup {q \in OpenCells(g) : \E p \in S : Adjacent(p, q)}
  IN IF N = S THEN S ELSE ReachFrom(g, N)

OpenEdges(g) ==
  {e \in SUBSET OpenCells(g) :
     Cardinality(e) = 2 /\ \A p, q \in e : p = q \/ Adjacent(p, q)}

\* Connected and acyclic: one simple path between any two open cells.
IsPerfect(g, s) ==
  /\ ReachFrom(g, {s}) = OpenCells(g)
  /\ Cardinality(OpenEdges(g)) = Cardinality(OpenCells(g)) - 1

CellAt(g, p) == g[p[2]][p[1]]

Generated == pc = "generated"

AtLeast5x5 == width >= 5 /\ height >= 5

AllFour(g, s, e) == [pf \in Pathfinders |-> find_path(pf, g, s, e)]

\* A returned path: first position s, last position e, unit steps between.
WellFormedPath(path, s, e) ==
  /\ Len(path) >= 1
  /\ path[1] = s
  /\ path[Len(path)] = e
  /\ \A i \in 1..(Len(path) - 1) : Adjacent(path[i], path[i + 1])

\* The number of simple paths of open cells from cur to e that avoid seen.
RECURSIVE SimplePaths(_, _, _, _)
RECURSIVE SimplePathsVia(_, _, _, _)
SimplePaths(g, cur, e, seen) ==
  IF cur = e THEN 1
  ELSE SimplePathsVia(g, {q \in OpenCells(g) \ seen : Adjacent(cur, q)}, e, seen)

SimplePathsVia(g, S, e, seen) ==
  IF S = {} THEN 0
  ELSE LET q == CHOOSE q \in S : TRUE
       IN SimplePaths(g, q, e, seen \cup {q}) + SimplePathsVia(g, S \ {q}, e, seen)

InOpenCell(g, p) ==
  InBounds(p[1], p[2], GridWidth(g), GridHeight(g)) /\ CellAt(g, p) # WALL

\* The number of positions of a shortest path of 4-adjacent open cells to e
\* from the cells of frontier, themselves reached by paths of n positions;
\* 0 when there is none.
RECURSIVE ShortestFrom(_, _, _, _, _)
ShortestFrom(g, seen, frontier, e, n) ==
  IF e \in frontier THEN n
  ELSE LET nxt == {q \in OpenCells(g) \ seen : \E p \in frontier : Adjacent(p, q)}
       IN IF nxt = {} THEN 0
          ELSE ShortestFrom(g, seen \cup nxt, nxt, e, n + 1)

\* The number of steps of a shortest path from s to p through open cells, s
\* itself taken as it is; -1 when there is none.
Distance(g, s, p) == ShortestFrom(g, {s}, {s}, p, 1) - 1

\* The same for the passable paths from s to e: none when s is not an open
\* cell of the grid.
ShortestLen(g, s, e) ==
  IF InOpenCell(g, s) THEN ShortestFrom(g, {s}, {s}, e, 1) ELSE 0

(***************************************************************************)
(* Properties                                                              *)
(***************************************************************************)
\* C1: a Maze stores each requested dimension unchanged when it is odd and
\* plus one when it is even, and the generated grid has height rows of width
\* cells.
C1_OddNormalization ==
  pc \in {"created", "iter", "rec", "generated", "gen_error"} =>
    /\ width = (IF req[1] % 2 = 0 THEN req[1] + 1 ELSE req[1])
    /\ height = (IF req[2] % 2 = 0 THEN req[2] + 1 ELSE req[2])
    /\ Generated =>
         /\ DOMAIN grid = 0..(height - 1)
         /\ \A y \in DOMAIN grid : DOMAIN grid[y] = 0..(width - 1)

C1_Witness ==
  /\ Generated
  /\ req = <<6, 3>>
  /\ width = 7 /\ height = 3
  /\ GridHeight(grid) = 3 /\ GridWidth(grid) = 7

\* C2: in every generated grid of at least 5x5 the end cell is joined to the
\* start cell by 4-adjacent passable cells, and BFS returns a path.
C2_EndReachable ==
  (Generated /\ AtLeast5x5) =>
    /\ end_pos \in ReachFrom(grid, {start_pos})
    /\ BFS_find_path(grid, start_pos, end_pos).found

C2_Witness ==
  /\ Generated
  /\ generator = "recursive"
  /\ width = 5 /\ height = 5
  /\ BFS_find_path(grid, start_pos, end_pos).found

\* C3 (as claimed): every generated grid of at least 5x5 is a perfect maze,
\* its passable cells connected and without a cycle.
C3_PerfectMaze ==
  (Generated /\ AtLeast5x5) => IsPerfect(grid, start_pos)

\* C4: on every generated grid of at least 5x5 the four pathfinders each
\* return a path, and the four paths have the same length.
C4_SameLength ==
  (Generated /\ AtLeast5x5) =>
    LET r == AllFour(grid, start_pos, end_pos)
    IN /\ \A pf \in Pathfinders : r[pf].found
       /\ \A pf \in Pathfinders : Len(r[pf].path) = Len(r["bfs"].path)

\* The grid has a cycle, so two simple paths to end, and the four agree.
C4_Witness ==
  /\ Generated /\ AtLeast5x5
  /\ ~IsPerfect(grid, start_pos)
  /\ LET r == AllFour(grid, start_pos, end_pos)
     IN \A pf \in Pathfinders : r[pf].found /\ Len(r[pf].path) = 7

\* C5: a path returned by any pathfinder begins with start, ends with end,
\* and each step of it moves by one in exactly one coordinate.
C5_PathWellFormed ==
  (call.returned /\ call.result.found) =>
    WellFormedPath(call.result.path, call.start, call.end)

C5_Witness ==
  /\ call.returned /\ call.result.found
  /\ call.pf = "astar"
  /\ Len(call.result.path) >= 5

\* C6 (as claimed): every position of a returned path, the first and the last
\* included, is an in-bounds cell that is not Wall.
C6_AllPassable ==
  (call.returned /\ call.result.found) =>
    \A i \in 1..Len(call.result.path) : InOpenCell(call.grid, call.result.path[i])

\* C6 (amended): when start is an in-bounds cell that is not Wall, every
\* position of a returned path is an in-bounds cell that is not Wall.
C6_AllPassableFromOpenStart ==
  (call.returned /\ call.result.found /\ InOpenCell(call.grid, call.start)) =>
    \A i \in 1..Len(call.result.path) : InOpenCell(call.grid, call.result.path[i])

C6_Witness ==
  /\ call.returned /\ call.result.found
  /\ call.pf = "deadend"
  /\ InOpenCell(call.grid, call.start)
  /\ Len(call.result.path) >= 4
  /\ \E p \in CellsOf(call.grid) : CellAt(call.grid, p) = WALL

\* C7 (as claimed): for every size from 3x3 upward the generated grid has
\* kind Start at start and kind End at end.
C7_Terminals ==
  (Generated /\ width >= 3 /\ height >= 3) =>
    /\ CellAt(grid, start_pos) = START
    /\ CellAt(grid, end_pos) = END

\* C7 (amended): for every size from 3x3 upward where start and end are two
\* cells (every size but 3x3), from the marking of the terminals on, through
\* every carving step and the exit step, the cell at start has kind Start and
\* the cell at end has kind End.
C7_TerminalsWhenDistinct ==
  (pc \in {"iter", "rec", "generated"} /\ start_pos # end_pos) =>
    /\ CellAt(grid, start_pos) = START
    /\ CellAt(grid, end_pos) = END

C7_Witness ==
  /\ Generated
  /\ generator = "iterative"
  /\ width = 7 /\ height = 5
  /\ end_pos \in visited
  /\ CellAt(grid, start_pos) = START
  /\ CellAt(grid, end_pos) = END

\* C8 (as claimed): the grids that one seeded generator returns for the same
\* dimensions, one call after the other, are the same grid.
C8_SameGeneratorSameGrid ==
  \A i, j \in 1..Len(grids) :
     grids[i].run = grids[j].run => grids[i].grid = grids[j].grid

\* C9: two runs that each construct a generator of the same strategy with the
\* same seed and at once generate with the same dimensions return the same
\* grid.
C9_SameSeedSameGrid ==
  \A i, j \in 1..Len(grids) :
     (grids[i].run = 1 /\ grids[j].run = 2) => grids[i].grid = grids[j].grid

C9_Witness ==
  /\ Generated
  /\ Len(grids) = 2
  /\ grids[1].run = 1 /\ grids[2].run = 2
  /\ generator = "recursive"
  /\ width = 5 /\ height = 5
  /\ grids[1].grid = grids[2].grid

\* C10: on a non-empty grid, find_path(grid, p, p) of every pathfinder returns
\* the path [p].
C10_StartIsEnd ==
  (call.returned /\ ~EmptyGrid(call.grid) /\ call.start = call.end) =>
    call.result = Found(<<call.start>>)

C10_Witness ==
  /\ call.returned
  /\ ~EmptyGrid(call.grid)
  /\ call.start = call.end
  /\ call.pf = "deadend"
  /\ InOpenCell(call.grid, call.start)
  /\ call.result = Found(<<call.start>>)

\* C11: when the grid has no rows, or rows of no cells, find_path of every
\* pathfinder returns the absent result, for any start and end, start equal
\* to end included.
C11_EmptyGridNoPath ==
  (call.returned /\ (GridHeight(call.grid) = 0 \/ GridWidth(call.grid) = 0)) =>
    call.result = None

C11_Witness ==
  /\ call.returned
  /\ GridHeight(call.grid) = 2 /\ GridWidth(call.grid) = 0
  /\ call.start = call.end
  /\ call.pf = "astar"
  /\ call.result = None

\* C12 (as claimed): for every positive requested width and height, generation
\* by either generator ends with a grid and never with a generation error.
C12_GenerationNeverFails == pc # "gen_error"

\* C13: solution_path is absent from construction until a solve returns, and
\* once solve() calls have returned it is what the most recent of them
\* returned: the path found, or absent when none was found.
C13_SolutionPathIsLastResult ==
  /\ (pc \in {"created", "iter", "rec", "generated"} /\ call.solve = "none") =>
       solution_path = None
  /\ call.solve = "returned" => solution_path = call.result

C13_Witness ==
  /\ Generated
  /\ call.solve = "returned"
  /\ call.pf = "deadend"
  /\ ~call.result.found
  /\ solution_path = None

\* C14 (as claimed): solve() ends with PathfindingError exactly when the
\* strategy's find_path raised; when find_path returned the absent result,
\* solve() returned it.
C14_RaisesIffStrategyRaises ==
  /\ call.solve = "PathfindingError" <=> call.raised
  /\ (call.returned /\ ~call.result.found) =>
       (call.solve # "PathfindingError" /\ solution_path = None)

\* C14 (amended): solve() ends with PathfindingError exactly when the
\* strategy's find_path raised an exception that is an Exception; an
\* exception of the strategy that is not one ends solve() itself; when
\* find_path returned the absent result, solve() returned it.
C14_RaisesIffStrategyRaisesException ==
  /\ call.solve = "PathfindingError" <=>
       (call.raised /\ Raises(call.pf) = "Exception")
  /\ (call.raised /\ Raises(call.pf) = "BaseException") =>
       call.solve = "BaseException"
  /\ (call.returned /\ ~call.result.found) =>
       (call.solve = "returned" /\ solution_path = None)

C14_Witness ==
  /\ Generated
  /\ call.pf = RAISING
  /\ call.raised
  /\ call.solve = "PathfindingError"
  /\ solution_path = None

\* C15: whatever the random choices, the passable cells of a generated 5x5
\* grid form a tree: they are connected, their number is the number of
\* 4-adjacent passable pairs plus one, and exactly one simple passable path
\* leads from start (1,1) to end (3,3).
C15_Tree5x5 ==
  (Generated /\ width = 5 /\ height = 5) =>
    /\ start_pos = Position(1, 1) /\ end_pos = Position(3, 3)
    /\ ReachFrom(grid, {start_pos}) = OpenCells(grid)
    /\ Cardinality(OpenCells(grid)) = Cardinality(OpenEdges(grid)) + 1
    /\ SimplePaths(grid, start_pos, end_pos, {start_pos}) = 1

C15_Witness ==
  /\ Generated
  /\ generator = "iterative"
  /\ width = 5 /\ height = 5
  /\ Cardinality(OpenCells(grid)) = 7
  /\ Cardinality(OpenEdges(grid)) = 6
  /\ SimplePaths(grid, start_pos, end_pos, {start_pos}) = 1

\* C16 (as claimed): on a non-empty grid, for any start and end, BFS returns
\* a path exactly when a path of 4-adjacent passable cells leads from start to
\* end, and the path returned is as short as the shortest of them.
C16_BFSShortest ==
  (call.returned /\ call.pf = "bfs" /\ ~EmptyGrid(call.grid)) =>
    LET n == ShortestLen(call.grid, call.start, call.end)
    IN /\ call.result.found <=> n > 0
       /\ call.result.found => Len(call.result.path) = n

\* C16 (amended): the same, for a start that is an in-bounds passable cell.
C16_BFSShortestFromOpenStart ==
  (call.returned /\ call.pf = "bfs" /\ ~EmptyGrid(call.grid)
     /\ InOpenCell(call.grid, call.start)) =>
    LET n == ShortestLen(call.grid, call.start, call.end)
    IN /\ call.result.found <=> n > 0
       /\ call.result.found => Len(call.result.path) = n

\* Two simple paths lead to end (the grid has a cycle) and BFS returns one
\* of the shortest length.
C16_Witness ==
  /\ call.returned /\ call.pf = "bfs"
  /\ InOpenCell(call.grid, call.start)
  /\ call.result.found
  /\ Len(call.result.path) = 4
  /\ Len(call.result.path) = ShortestLen(call.grid, call.start, call.end)
  /\ SimplePaths(call.grid, call.start, call.end, {call.start}) >= 3

\* C17: on a non-empty grid, for any start and end, A* returns a path exactly
\* when BFS does, and its path has the length of the BFS path, which is the
\* shortest-path length.
C17_AStarOptimal ==
  (call.returned /\ call.pf = "astar" /\ ~EmptyGrid(call.grid)) =>
    LET b == BFS_find_path(call.grid, call.start, call.end)
    IN /\ call.result.found <=> b.found
       /\ call.result.found => Len(call.result.path) = Len(b.path)
       /\ (call.result.found /\ InOpenCell(call.grid, call.start)) =>
            Len(call.result.path) = ShortestLen(call.grid, call.start, call.end)

\* The grid has a cycle through which a longer path leads to end as well.
C17_Witness ==
  /\ call.returned /\ call.pf = "astar"
  /\ GridWidth(call.grid) = 5 /\ GridHeight(call.grid) = 2
  /\ call.start = Position(4, 0) /\ call.end = Position(0, 1)
  /\ OpenCells(call.grid) = CellsOf(call.grid) \ {Position(1, 1)}
  /\ call.result.found
  /\ Len(call.result.path) = 6
  /\ Len(BFS_find_path(call.grid, call.start, call.end).path) = 6
  /\ SimplePaths(call.grid, call.start, call.end, {call.start}) >= 2

\* C18: on a non-empty grid, for any start and end, Dijkstra returns a path
\* exactly when A* does, and the two paths have the same length.
C18_DijkstraMatchesAStar ==
  (call.returned /\ call.pf = "dijkstra" /\ ~EmptyGrid(call.grid)) =>
    LET a == AStar_find_path(call.grid, call.start, call.end)
    IN /\ call.result.found <=> a.found
       /\ call.result.found => Len(call.result.path) = Len(a.path)

\* Equal lengths where the two return different paths.
C18_Witness ==
  /\ call.returned /\ call.pf = "dijkstra"
  /\ call.result.found
  /\ LET a == AStar_find_path(call.grid, call.start, call.end)
     IN /\ a.found
        /\ Len(a.path) = Len(call.result.path)
        /\ a.path # call.result.path

\* C19: a call of find_path by Maze.solve leaves every cell of the grid it
\* was given as it was, the dead-end filler's included, and the Maze's grid
\* after solve() is the grid before it.
C19_GridUnchanged ==
  /\ call.returned => call.grid_after = call.grid
  /\ call.solve = "returned" => grid = call.grid

\* Maze.solve has returned from the dead-end filler, which has turned cells
\* of its working grid into Wall.
C19_Witness ==
  /\ Generated
  /\ call.solve = "returned"
  /\ call.returned
  /\ call.pf = "deadend"
  /\ call.result.found
  /\ Cardinality(OpenCells(FillDeadEnds(call.grid, call.start, call.end)))
       < Cardinality(OpenCells(call.grid))
  /\ grid = call.grid

\* C20 (as claimed): on every generated grid on which the dead-end filler
\* returns a path, the passable cells of its working grid at the fixed point
\* are exactly the positions of that path.
C20_OnlyCorridorLeft ==
  Generated =>
    LET r == DeadEnd_find_path(grid, start_pos, end_pos)
        wg == WorkingGrid(grid, start_pos, end_pos)
    IN r.found => OpenCells(wg) = {r.path[i] : i \in 1..Len(r.path)}

\* The same on the generated grids that are perfect mazes.
C20_OnlyCorridorLeftIfPerfect ==
  (Generated /\ IsPerfect(grid, start_pos)) =>
    LET r == DeadEnd_find_path(grid, start_pos, end_pos)
        wg == WorkingGrid(grid, start_pos, end_pos)
    IN r.found /\ OpenCells(wg) = {r.path[i] : i \in 1..Len(r.path)}

\* A* is about to pop an entry of its frontier.
AStarAboutToPop ==
  pc = "astar" /\ ~search.st.done /\ search.st.open # {}

\* C22 (as claimed): whenever A* pops its frontier, the entry popped is the
\* one inserted earliest (of smallest counter) among the entries of the same
\* priority f.
C22_EarliestOfEqualFFirst ==
  AStarAboutToPop =>
    LET top == AStarPop(search.st.open)
    IN \A b \in search.st.open : b.f = top.f => top.c <= b.c

\* C22 (amended): whenever A* pops its frontier, no entry has a smaller f than
\* the entry popped; among the entries of the same f none has a smaller g;
\* and among those of the same f and g the entry popped is the one inserted
\* earliest.
C22_SmallestGThenEarliest ==
  AStarAboutToPop =>
    LET top == AStarPop(search.st.open)
    IN \A b \in search.st.open \ {top} :
         /\ top.f <= b.f
         /\ b.f = top.f => top.g <= b.g
         /\ (b.f = top.f /\ b.g = top.g) => top.c < b.c

\* The entry about to be popped has a smaller g than an entry of the same f
\* inserted before it.
C22_Witness ==
  /\ AStarAboutToPop
  /\ LET top == AStarPop(search.st.open)
     IN \E b \in search.st.open : b.f = top.f /\ b.c < top.c /\ top.g < b.g

\* C23: in A*, every position with a recorded g that is not finalized has a
\* frontier entry of that g and none of a smaller g (a cheaper g is recorded
\* and pushed together), and an entry popped for a position not yet in
\* visited carries the length of a shortest path from start to that position.
C23_FinalizedAtShortest ==
  pc = "astar" =>
    /\ \A p \in (DOMAIN search.st.g_scores) \ search.st.visited :
         /\ \E b \in search.st.open : b.pos = p /\ b.g = search.st.g_scores[p]
         /\ \A b \in search.st.open : b.pos = p => b.g >= search.st.g_scores[p]
    /\ AStarAboutToPop =>
         LET top == AStarPop(search.st.open)
         IN top.pos \notin search.st.visited =>
              /\ top.g = Distance(call.grid, call.start, top.pos)
              /\ top.g = search.st.g_scores[top.pos]
              /\ Len(top.path) = top.g + 1

\* A position about to be finalized five steps from start, on a grid with
\* walls where other entries of the same f wait in the frontier.
C23_Witness ==
  /\ AStarAboutToPop
  /\ LET top == AStarPop(search.st.open)
     IN /\ top.pos \notin search.st.visited
        /\ top.g = 5
        /\ top.g = Distance(call.grid, call.start, top.pos)
        /\ \E b \in search.st.open : b # top /\ b.f = top.f
  /\ \E p \in CellsOf(call.grid) : CellAt(call.grid, p) = WALL

\* No cell of kind Empty or Path of wg, other than s and e, has fewer than
\* two passable 4-neighbours.
NoDeadEndLeft(wg, s, e) ==
  \A p \in CellsOf(wg) :
     (CellAt(wg, p) \in {EMPTY, PATH} /\ p # s /\ p # e) =>
       PassableNeighbors(wg, p[1], p[2]) >= 2

\* C21: every scan of the dead-end filler that reports a change leaves
\* strictly fewer passable cells in the working copy than it found, so the
\* scan loop comes to an end on every grid; a scan is followed by another
\* scan or by the search, never by a return to an earlier step; and once the
\* loop has stopped every cell of kind Empty or Path of the working copy,
\* other than start and end, has at least two passable 4-neighbours.
C21_FillTerminatesAtFixedPoint ==
  /\ [][(pc = "fill" /\ search.changed) =>
          /\ pc' = "fill"
          /\ search'.changed =>
               Cardinality(OpenCells(search'.working_grid))
                 < Cardinality(OpenCells(search.working_grid))
          /\ ~search'.changed => search'.working_grid = search.working_grid]_vars
  /\ []((search.alg = "deadend" /\ ~search.changed) =>
          NoDeadEndLeft(search.working_grid, call.start, call.end))

\* The loop has stopped after walling at least two cells of the copy, and
\* passable cells are left besides start and end.
C21_Witness ==
  /\ call.returned
  /\ search.alg = "deadend" /\ ~search.changed
  /\ Cardinality(OpenCells(call.grid)) - Cardinality(OpenCells(search.working_grid)) >= 2
  /\ Cardinality(OpenCells(search.working_grid) \ {call.start, call.end}) >= 2

\* p and q are two cells apart along one axis.
Stride2(p, q) ==
  \E i \in 1..4 : q = Position(p[1] + GenDirections[i][1],
                               p[2] + GenDirections[i][2])

\* C24: every iteration of the iterative generator's loop either pushes, on
\* top of the unchanged stack, exactly one in-bounds stride-2 neighbour of
\* the top that was not visited before (and is from then on), or pops exactly
\* one element, the visited set never shrinking; and at all times every
\* position of the stack is visited, none is on the stack twice, and
\* consecutive entries are stride-2 neighbours whose midpoint cell is carved.
C24_StackDiscipline ==
  /\ [][(pc = "iter" /\ pc' = "iter") =>
          /\ stack # <<>>
          /\ visited \subseteq visited'
          /\ IF Len(stack') > Len(stack)
             THEN /\ Len(stack') = Len(stack) + 1
                  /\ SubSeq(stack', 1, Len(stack)) = stack
                  /\ LET n == stack'[Len(stack')]
                     IN /\ n \notin visited
                        /\ visited' = visited \cup {n}
                        /\ InBounds(n[1], n[2], width, height)
                        /\ Stride2(stack[Len(stack)], n)
             ELSE /\ stack' = SubSeq(stack, 1, Len(stack) - 1)
                  /\ visited' = visited]_vars
  /\ [](pc = "iter" =>
          /\ \A i \in 1..Len(stack) : stack[i] \in visited
          /\ \A i, j \in 1..Len(stack) : stack[i] = stack[j] => i = j
          /\ \A i \in 1..(Len(stack) - 1) :
               /\ Stride2(stack[i], stack[i + 1])
               /\ grid[(stack[i][2] + stack[i + 1][2]) \div 2]
                      [(stack[i][1] + stack[i + 1][1]) \div 2] = EMPTY)

\* The loop has pushed and popped: three positions are on the stack and a
\* visited position is no longer on it.
C24_Witness ==
  /\ pc = "iter"
  /\ Len(stack) >= 3
  /\ Cardinality(visited) > Len(stack)

\* The in-bounds cells with both coordinates odd.
OddCells(w, h) ==
  {p \in (0..(w - 1)) \X (0..(h - 1)) : p[1] % 2 = 1 /\ p[2] % 2 = 1}

\* What the carving loop has left to do: a push takes a cell out of the
\* unvisited ones and adds one stack entry, a pop removes one stack entry.
CarveMeasure(w, h, vis, stk) == 2 * Cardinality(OddCells(w, h) \ vis) + Len(stk)

\* The cells that are neither Wall nor at odd-odd coordinates.
CarvedWalls(g) ==
  {p \in CellsOf(g) : CellAt(g, p) # WALL /\ ~(p[1] % 2 = 1 /\ p[2] % 2 = 1)}

\* C25: every iteration of the iterative generator's carving loop strictly
\* lowers a natural-number measure, so the loop comes to an end, and it is
\* left only with an empty stack; when the stack is empty the visited set is
\* exactly the set of in-bounds cells with both coordinates odd, every such
\* cell is passable, and the cells carved between them are Empty and exactly
\* one fewer than the odd-odd cells.
C25_CarvingEndsWithSpanningTree ==
  /\ [][/\ (pc = "iter" /\ pc' = "iter") =>
             /\ CarveMeasure(width, height, visited', stack')
                  < CarveMeasure(width, height, visited, stack)
             /\ CarveMeasure(width, height, visited', stack') >= 0
        /\ (pc = "iter" /\ pc' # "iter") => stack = <<>>]_vars
  /\ []((pc = "iter" /\ stack = <<>>) =>
          /\ visited = OddCells(width, height)
          /\ \A p \in OddCells(width, height) : CellAt(grid, p) # WALL
          /\ \A p \in CarvedWalls(grid) : CellAt(grid, p) = EMPTY
          /\ Cardinality(CarvedWalls(grid))
               = Cardinality(OddCells(width, height)) - 1)

\* The loop of a 7x5 maze is over: six cells visited, five walls carved.
C25_Witness ==
  /\ pc = "iter"
  /\ stack = <<>>
  /\ Cardinality(visited) = 6
  /\ Cardinality(CarvedWalls(grid)) = 5

\* The cells in which two grids of the same shape differ.
ChangedCells(g1, g2) == {p \in CellsOf(g1) : CellAt(g1, p) # CellAt(g2, p)}

\* The left and the top neighbour of e.
LeftOf(e) == Position(e[1] - 1, e[2])
TopOf(e) == Position(e[1], e[2] - 1)

\* C26 (as claimed): in both generators every generate call runs the exit
\* step exactly once, when the carving is over (stack or call stack empty);
\* the step changes at most one cell, that cell is the left or the top
\* neighbour of end, it was Wall and becomes Empty, and afterwards the left
\* or the top neighbour of end is passable.  grids counts the exit steps
\* taken: a call that has ended, by returning or by raising, has taken one.
C26_ExitStepOnce ==
  /\ [][IF pc # "generated" /\ pc' = "generated"
        THEN /\ \/ generator = "iterative" /\ pc = "iter" /\ stack = <<>>
                \/ generator = "recursive" /\ pc = "rec" /\ frames = <<>>
             /\ Len(grids') = Len(grids) + 1
             /\ Cardinality(ChangedCells(grid, grid')) <= 1
             /\ \A p \in ChangedCells(grid, grid') :
                  /\ p \in {LeftOf(end_pos), TopOf(end_pos)}
                  /\ CellAt(grid, p) = WALL
                  /\ CellAt(grid', p) = EMPTY
             /\ \E p \in {LeftOf(end_pos), TopOf(end_pos)} :
                  /\ InBounds(p[1], p[2], width, height)
                  /\ CellAt(grid', p) # WALL
        ELSE grids' = grids]_vars
  /\ [](Len(grids) = IF pc \in {"generated", "gen_error"} THEN 1 ELSE 0)

\* The carving of a generate call is over and the exit step has not run.
CarvingOver ==
  \/ pc = "iter" /\ stack = <<>>
  \/ pc = "rec" /\ frames = <<>>

\* C27: for both generators and sizes of at least 5x5, when the carving is
\* over and before the exit step, the end cell is reachable from start
\* through passable cells.
C27_EndReachableBeforeExit ==
  (CarvingOver /\ AtLeast5x5) => end_pos \in ReachFrom(grid, {start_pos})

\* C28: for sizes of at least 5x5, a grid that one generator returns is a
\* grid that the other generator can return as well.
C28_SameGrids ==
  (Generated /\ AtLeast5x5) =>
    IF generator = "iterative"
    THEN grids[1].grid \in RecursiveGrids(width, height, start_pos, end_pos)
    ELSE grids[1].grid \in IterativeGrids(width, height, start_pos, end_pos)

\* The cells of the outermost rows and columns of a w x h grid.
BorderCells(w, h) ==
  {p \in (0..(w - 1)) \X (0..(h - 1)) :
     p[1] = 0 \/ p[1] = w - 1 \/ p[2] = 0 \/ p[2] = h - 1}

\* C29: for every size from 3x3 upward and either generator, every cell of
\* the outermost rows and columns of the generated grid is Wall.
C29_OuterRingIsWall ==
  (Generated /\ width >= 3 /\ height >= 3) =>
    \A p \in BorderCells(width, height) : CellAt(grids[1].grid, p) = WALL

\* C30: in the GUI, whenever show_solution is true the Maze held in
\* current_maze has a cached solution path.
C30_ShownMazeIsSolved ==
  gui.show_solution =>
    /\ gui.current_maze # NoMaze
    /\ gui.mazes[gui.current_maze]

====
